---- MODULE Spec2Model ----
(***************************************************************************)
(* Files manager: the file/folder catalog, the token session lookup and    *)
(* the five file handlers of FilesController, with the utilities they      *)
(* call (utils/file.js, utils/user.js, utils/basic.js).                     *)
(*                                                                         *)
(* Stores: redis (Identity Store), usersCollection and files (catalog),    *)
(* blobs (the local folder FOLDER_PATH), queue (the bull fileQueue).       *)
(* last is the response the last handler sent (status 0: the handler threw *)
(* and no response was sent). uploads holds, for each request of POST      *)
(* /files that is between two of its awaits, what the request holds.       *)
(***************************************************************************)
EXTENDS Integers, Sequences, FiniteSets, TLC

VARIABLES redis, files, blobs, queue, last, uploads

vars == <<redis, files, blobs, queue, last, uploads>>

(***************************************************************************)
(* Bounds of the model.                                                    *)
(***************************************************************************)
\* most records the catalog holds
MaxFiles == 2
\* most records of the catalogs that are listed page by page
MaxCatalog == 45
\* the last page asked for
MaxPage == 2
\* most requests of POST /files in flight at once
MaxProcs == 2
\* most jobs the queue holds
MaxJobs == 1

(***************************************************************************)
(* JavaScript values that reach ObjectId(): [t: type, n: payload].         *)
(*   Hex(k)   the 24-hex-character string of ObjectId k                    *)
(*   Str0     the string '0'                                               *)
(*   StrEmpty the string ''                                                *)
(*   StrBad   a string that is neither 12 bytes nor 24 hex characters      *)
(* ObjectIds are integers: k > 0 an id some client can name, k < 0 an id   *)
(* the driver generated (ObjectId(null), ObjectId(5)), distinct from       *)
(* every id stored before it.                                              *)
(***************************************************************************)
Undefined == [t |-> "undefined", n |-> 0]
Null == [t |-> "null", n |-> 0]
Num(k) == [t |-> "number", n |-> k]
Hex(k) == [t |-> "hex", n |-> k]
Str0 == [t |-> "string", n |-> 0]
StrEmpty == [t |-> "string", n |-> 1]
StrBad == [t |-> "string", n |-> 2]
JsTrue == [t |-> "boolean", n |-> 1]
JsFalse == [t |-> "boolean", n |-> 0]

\* JavaScript truthiness (the operand of ! and &&)
Truthy(v) == v \notin {Undefined, Null, Num(0), StrEmpty, JsFalse}

\* a field that is absent or the empty string: both are falsy
Missing == ""

\* does ObjectId(id) return (TRUE) or throw (FALSE)
ObjectIdAccepts(id) == id.t \in {"undefined", "null", "number", "hex"}

\* bson ObjectId(id): the id a hex string names, else a newly generated id
ObjectId(id, generated) == IF id.t = "hex" THEN id.n ELSE generated

\* ObjectId.prototype.toString
toString(oid) == Hex(oid)

\* the id the driver generates next, given the catalog
GeneratedId(cat) == 0 - (Len(cat) + 1)

isValidId(id) == ObjectIdAccepts(id)

(***************************************************************************)
(* Users (registered elsewhere, never changed here) and sessions.          *)
(***************************************************************************)
UserA == 101
UserB == 102
\* a well-formed id that names no user
UserGone == 103

usersCollection == {[_id |-> UserA], [_id |-> UserB]}

\* values of the X-Token header; NoToken: header absent or empty (falsy)
NoToken == ""
XTokens == {NoToken, "t1"}

RedisKeys == {"auth_" \o t : t \in XTokens \ {NoToken}}

\* what a key of the Identity Store is set to; Null: no such key
RedisValues == {Hex(UserA), Hex(UserB), Hex(UserGone), StrEmpty}

\* RedisClient.get
RedisGet(rds, key) == rds[key]

\* mutant: the session outlives its key, the token keeps resolving
getUserIdAndKeyStale(rds, xToken) ==
  IF xToken = NoToken
    THEN [userId |-> Null, key |-> NoToken]
    ELSE [userId |-> Hex(UserA), key |-> "auth_" \o xToken]

getUserIdAndKey(rds, xToken) ==
  IF xToken = NoToken
    THEN [userId |-> Null, key |-> NoToken]
    ELSE [userId |-> RedisGet(rds, "auth_" \o xToken), key |-> "auth_" \o xToken]

\* usersCollection.findOne({_id}): the set of matching users (empty: null)
getUser(oid) == {u \in usersCollection : u._id = oid}

(***************************************************************************)
(* Catalog: a sequence of documents in insertion order; _id is the         *)
(* position. A document is a record; a folder has no localPath field.      *)
(***************************************************************************)
NoDoc == [none |-> TRUE]

\* do the fields of query q all match document d
Matches(d, q) == \A f \in DOMAIN q : f \in DOMAIN d /\ d[f] = q[f]

\* filesCollection.findOne(query)
getFile(cat, q) ==
  IF \E i \in 1..Len(cat) : Matches(cat[i], q)
    THEN cat[CHOOSE i \in 1..Len(cat) :
               Matches(cat[i], q) /\ \A j \in 1..(i - 1) : ~Matches(cat[j], q)]
    ELSE NoDoc

\* mutant: _id is renamed and localPath is left in the projection
processFileKeepPath(doc) ==
  [f \in ((DOMAIN doc \ {"_id"}) \cup {"id"}) |-> IF f = "id" THEN doc._id ELSE doc[f]]

processFile(doc) ==
  [f \in ((DOMAIN doc \ {"localPath", "_id"}) \cup {"id"}) |->
     IF f = "id" THEN doc._id ELSE doc[f]]

\* msg = null, error: null
NoMsg == ""

(***************************************************************************)
(* Responses.                                                              *)
(***************************************************************************)
\* response.status(status).send(body); error: the error of the body, if any
Send(status, body) == [status |-> status, error |-> NoMsg, body |-> body]
SendError(status, msg) == [status |-> status, error |-> msg, body |-> [error |-> msg]]
\* the handler threw: the promise is rejected and nothing is sent
Thrown == [status |-> 0, error |-> "TypeError", body |-> [exception |-> "TypeError"]]

(***************************************************************************)
(* utils/file.js                                                           *)
(***************************************************************************)
typesAllowed == {"file", "image", "folder"}

\* mutant: the type is checked before the name
validateBodyTypeFirst(cat, body) ==
  LET isPublic == IF body.isPublic = Undefined THEN JsFalse ELSE body.isPublic
      given == IF body.parentId = Undefined THEN Num(0) ELSE body.parentId
      parentId == IF given = Str0 THEN Num(0) ELSE given
      file == IF isValidId(parentId)
                THEN getFile(cat, [_id |-> ObjectId(parentId, GeneratedId(cat))])
                ELSE NoDoc
      msg == IF body.type = Missing \/ body.type \notin {"file", "image", "folder"}
               THEN "Missing type"
             ELSE IF body.name = Missing THEN "Missing name"
             ELSE IF body.data = Missing /\ body.type # "folder" THEN "Missing data"
             ELSE IF Truthy(parentId) /\ parentId # Str0
               THEN IF file = NoDoc THEN "Parent not found"
                    ELSE IF file.type # "folder" THEN "Parent is not a folder"
                    ELSE NoMsg
             ELSE NoMsg
  IN [error |-> msg,
      fileParams |-> [name |-> body.name, type |-> body.type, parentId |-> parentId,
                      isPublic |-> isPublic, data |-> body.data]]

validateBody(cat, body) ==
  LET isPublic == IF body.isPublic = Undefined THEN JsFalse ELSE body.isPublic
      given == IF body.parentId = Undefined THEN Num(0) ELSE body.parentId
      parentId == IF given = Str0 THEN Num(0) ELSE given
      file == IF isValidId(parentId)
                THEN getFile(cat, [_id |-> ObjectId(parentId, GeneratedId(cat))])
                ELSE NoDoc
      msg == IF body.name = Missing THEN "Missing name"
             ELSE IF body.type = Missing \/ body.type \notin typesAllowed
               THEN "Missing type"
             ELSE IF body.data = Missing /\ body.type # "folder" THEN "Missing data"
             ELSE IF Truthy(parentId) /\ parentId # Str0
               THEN IF file = NoDoc THEN "Parent not found"
                    ELSE IF file.type # "folder" THEN "Parent is not a folder"
                    ELSE NoMsg
             ELSE NoMsg
  IN [error |-> msg,
      fileParams |-> [name |-> body.name, type |-> body.type, parentId |-> parentId,
                      isPublic |-> isPublic, data |-> body.data]]

\* a blob location: FOLDER_PATH/uuid, or FOLDER_PATH/uuid_size for a variant
Path(uuid, size) == <<uuid, size>>

\* mutant: the name is a counter of the blobs, not a unique token
uuidCounter(bl) == Cardinality({p[1] : p \in DOMAIN bl}) + 1

\* uuidv4(): a name no blob has and no request holds (bl has the names held)
uuidv4(bl) ==
  LET used == {p[1] : p \in DOMAIN bl}
      n == Cardinality(used)
  IN IF used = 1..n THEN n + 1 ELSE CHOOSE u \in 1..n : u \notin used

\* Buffer.from(data, 'base64')
Base64Decode(data) == "decoded:" \o data

\* outcomes of fsPromises.mkdir and fsPromises.writeFile
FsOutcomes == {"ok", "fail"}

\* filesCollection.insertOne(query): the catalog assigns _id
insertOne(cat, query) ==
  Append(cat, [f \in (DOMAIN query \cup {"_id"}) |->
                 IF f = "_id" THEN Len(cat) + 1 ELSE query[f]])

\* mutant: the blob is written and localPath set for every type, folders too
saveFileAlwaysPath(cat, bl, userId, fileParams, fs) ==
  LET parentId == IF fileParams.parentId # Num(0)
                    THEN ObjectId(fileParams.parentId, GeneratedId(cat))
                    ELSE 0
      path == Path(Cardinality({p[1] : p \in DOMAIN bl}) + 1, 0)
      stored == [userId |-> ObjectId(userId, GeneratedId(cat)),
                 name |-> fileParams.name,
                 type |-> fileParams.type,
                 isPublic |-> fileParams.isPublic,
                 parentId |-> parentId,
                 localPath |-> path]
      inserted == Append(cat, [_id |-> Len(cat) + 1] @@ stored)
  IN IF fs = "fail"
       THEN [error |-> "EACCES", code |-> 400, newFile |-> NoDoc,
             files |-> cat, blobs |-> bl]
       ELSE [error |-> NoMsg, code |-> 0,
             newFile |-> processFile(inserted[Len(inserted)]),
             files |-> inserted, blobs |-> (path :> fileParams.data) @@ bl]

\* mutant: the record is stored at the root whatever parent was asked for
saveFileAtRoot(cat, bl, userId, fileParams, fs) ==
  LET query == [userId |-> ObjectId(userId, GeneratedId(cat)),
                name |-> fileParams.name,
                type |-> fileParams.type,
                isPublic |-> fileParams.isPublic,
                parentId |-> 0]
      path == Path(Cardinality({p[1] : p \in DOMAIN bl}) + 1, 0)
      stored == IF fileParams.type # "folder"
                  THEN [f \in (DOMAIN query \cup {"localPath"}) |->
                          IF f = "localPath" THEN path ELSE query[f]]
                  ELSE query
      written == IF fileParams.type # "folder"
                   THEN (path :> fileParams.data) @@ bl
                   ELSE bl
      inserted == Append(cat, [_id |-> Len(cat) + 1] @@ stored)
  IN IF fileParams.type # "folder" /\ fs = "fail"
       THEN [error |-> "EACCES", code |-> 400, newFile |-> NoDoc,
             files |-> cat, blobs |-> bl]
       ELSE [error |-> NoMsg, code |-> 0,
             newFile |-> processFile(inserted[Len(inserted)]),
             files |-> inserted, blobs |-> written]

saveFile(cat, bl, userId, fileParams, fs) ==
  LET parentId == IF fileParams.parentId # Num(0)
                    THEN ObjectId(fileParams.parentId, GeneratedId(cat))
                    ELSE 0
      query == [userId |-> ObjectId(userId, GeneratedId(cat)),
                name |-> fileParams.name,
                type |-> fileParams.type,
                isPublic |-> fileParams.isPublic,
                parentId |-> parentId]
      path == Path(uuidv4(bl), 0)
      stored == IF fileParams.type # "folder"
                  THEN [f \in (DOMAIN query \cup {"localPath"}) |->
                          IF f = "localPath" THEN path ELSE query[f]]
                  ELSE query
      written == IF fileParams.type # "folder"
                   THEN (path :> Base64Decode(fileParams.data)) @@ bl
                   ELSE bl
      inserted == insertOne(cat, stored)
  IN IF fileParams.type # "folder" /\ fs = "fail"
       THEN [error |-> "EACCES", code |-> 400, newFile |-> NoDoc,
             files |-> cat, blobs |-> bl]
       ELSE [error |-> NoMsg, code |-> 0,
             newFile |-> processFile(inserted[Len(inserted)]),
             files |-> inserted, blobs |-> written]

(***************************************************************************)
(* FilesController.postUpload                                              *)
(***************************************************************************)
\* fileQueue.add(job)
QueueAdd(q, job) == Append(q, job)

\* the job {} added for a request without a user id
EmptyJob == [empty |-> TRUE]

\* outcomes of awaiting fileQueue.add: the job is added, the promise rejects,
\* or it never settles (the queue's store is unreachable)
EnqueueOutcomes == {"ok", "fail", "pending"}

\* the promise of fileQueue.add rejected: the handler throws, nothing is sent
Rejected == [status |-> 0, error |-> "Error", body |-> [exception |-> "Error"]]

\* the handler is still awaiting fileQueue.add: nothing is sent
Awaiting == [status |-> 0, error |-> "pending", body |-> [exception |-> "pending"]]

AddFailed(enq) == IF enq = "fail" THEN Rejected ELSE Awaiting

\* mutant: the parent must be a folder of the caller
postUploadOwnParent(cat, rds, bl, q, xToken, body, fs, enq) ==
  LET userId == getUserIdAndKey(rds, xToken).userId
      addsEmpty == ~Truthy(userId) /\ body.type = "image"
      q1 == IF addsEmpty THEN QueueAdd(q, EmptyJob) ELSE q
      v == validateBody(cat, body)
      s == saveFile(cat, bl, userId, v.fileParams, fs)
      q2 == QueueAdd(q1, [fileId |-> toString(s.newFile.id),
                          userId |-> toString(s.newFile.userId)])
      unchanged == [files |-> cat, blobs |-> bl, queue |-> q1]
  IN IF ~isValidId(userId)
       THEN [resp |-> SendError(401, "Unauthorized"), files |-> cat, blobs |-> bl,
             queue |-> q]
     ELSE IF addsEmpty /\ enq # "ok"
       THEN [resp |-> AddFailed(enq), files |-> cat, blobs |-> bl, queue |-> q]
     ELSE IF getUser(ObjectId(userId, GeneratedId(cat))) = {}
       THEN [resp |-> SendError(401, "Unauthorized")] @@ unchanged
     ELSE IF v.error # NoMsg
       THEN [resp |-> SendError(400, v.error)] @@ unchanged
     ELSE IF v.fileParams.parentId # Num(0) /\ ~isValidId(v.fileParams.parentId)
       THEN [resp |-> SendError(400, "Parent not found")] @@ unchanged
     ELSE IF /\ v.fileParams.parentId # Num(0)
             /\ toString(getFile(cat, [_id |-> ObjectId(v.fileParams.parentId,
                                                         GeneratedId(cat))]).userId)
                  # userId
       THEN [resp |-> SendError(400, "Parent not found")] @@ unchanged
     ELSE IF s.error # NoMsg
       \* response.body is undefined: reading response.body.type throws
       THEN [resp |-> Thrown] @@ unchanged
     ELSE IF v.fileParams.type = "image" /\ enq # "ok"
       \* the record is inserted, the 201 waits behind the await
       THEN [resp |-> AddFailed(enq), files |-> s.files, blobs |-> s.blobs,
             queue |-> q1]
     ELSE [resp |-> Send(201, s.newFile), files |-> s.files, blobs |-> s.blobs,
           queue |-> IF v.fileParams.type = "image" THEN q2 ELSE q1]

\* mutant: the record is saved before the body is validated
postUploadSaveFirst(cat, rds, bl, q, xToken, body, fs, enq) ==
  LET userId == getUserIdAndKey(rds, xToken).userId
      addsEmpty == ~Truthy(userId) /\ body.type = "image"
      q1 == IF addsEmpty THEN QueueAdd(q, EmptyJob) ELSE q
      v == validateBody(cat, body)
      s == saveFile(cat, bl, userId, v.fileParams, fs)
      q2 == QueueAdd(q1, [fileId |-> toString(s.newFile.id),
                          userId |-> toString(s.newFile.userId)])
      unchanged == [files |-> cat, blobs |-> bl, queue |-> q1]
  IN IF ~isValidId(userId)
       THEN [resp |-> SendError(401, "Unauthorized"), files |-> cat, blobs |-> bl,
             queue |-> q]
     ELSE IF addsEmpty /\ enq # "ok"
       THEN [resp |-> AddFailed(enq), files |-> cat, blobs |-> bl, queue |-> q]
     ELSE IF getUser(ObjectId(userId, GeneratedId(cat))) = {}
       THEN [resp |-> SendError(401, "Unauthorized")] @@ unchanged
     ELSE IF v.error # NoMsg
       THEN [resp |-> SendError(400, v.error), files |-> s.files, blobs |-> s.blobs,
             queue |-> q1]
     ELSE IF v.fileParams.parentId # Num(0) /\ ~isValidId(v.fileParams.parentId)
       THEN [resp |-> SendError(400, "Parent not found")] @@ unchanged
     ELSE IF s.error # NoMsg
       \* response.body is undefined: reading response.body.type throws
       THEN [resp |-> Thrown] @@ unchanged
     ELSE IF v.fileParams.type = "image" /\ enq # "ok"
       \* the record is inserted, the 201 waits behind the await
       THEN [resp |-> AddFailed(enq), files |-> s.files, blobs |-> s.blobs,
             queue |-> q1]
     ELSE [resp |-> Send(201, s.newFile), files |-> s.files, blobs |-> s.blobs,
           queue |-> IF v.fileParams.type = "image" THEN q2 ELSE q1]

postUpload(cat, rds, bl, q, xToken, body, fs, enq) ==
  LET userId == getUserIdAndKey(rds, xToken).userId
      addsEmpty == ~Truthy(userId) /\ body.type = "image"
      q1 == IF addsEmpty THEN QueueAdd(q, EmptyJob) ELSE q
      v == validateBody(cat, body)
      s == saveFile(cat, bl, userId, v.fileParams, fs)
      q2 == QueueAdd(q1, [fileId |-> toString(s.newFile.id),
                          userId |-> toString(s.newFile.userId)])
      unchanged == [files |-> cat, blobs |-> bl, queue |-> q1]
  IN IF ~isValidId(userId)
       THEN [resp |-> SendError(401, "Unauthorized"), files |-> cat, blobs |-> bl,
             queue |-> q]
     ELSE IF addsEmpty /\ enq # "ok"
       THEN [resp |-> AddFailed(enq), files |-> cat, blobs |-> bl, queue |-> q]
     ELSE IF getUser(ObjectId(userId, GeneratedId(cat))) = {}
       THEN [resp |-> SendError(401, "Unauthorized")] @@ unchanged
     ELSE IF v.error # NoMsg
       THEN [resp |-> SendError(400, v.error)] @@ unchanged
     ELSE IF v.fileParams.parentId # Num(0) /\ ~isValidId(v.fileParams.parentId)
       THEN [resp |-> SendError(400, "Parent not found")] @@ unchanged
     ELSE IF s.error # NoMsg
       \* response.body is undefined: reading response.body.type throws
       THEN [resp |-> Thrown] @@ unchanged
     ELSE IF v.fileParams.type = "image" /\ enq # "ok"
       \* the record is inserted, the 201 waits behind the await
       THEN [resp |-> AddFailed(enq), files |-> s.files, blobs |-> s.blobs,
             queue |-> q1]
     ELSE [resp |-> Send(201, s.newFile), files |-> s.files, blobs |-> s.blobs,
           queue |-> IF v.fileParams.type = "image" THEN q2 ELSE q1]

(***************************************************************************)
(* FilesController.getShow                                                 *)
(***************************************************************************)
\* mutant: the record is looked up by its id alone, whoever owns it
getShowAnyOwner(cat, rds, xToken, fileId) ==
  LET userId == getUserIdAndKey(rds, xToken).userId
      result == getFile(cat, [_id |-> ObjectId(fileId, GeneratedId(cat))])
  IN IF ~ObjectIdAccepts(userId) THEN Thrown
     ELSE IF getUser(ObjectId(userId, GeneratedId(cat))) = {}
       THEN SendError(401, "Unauthorized")
     ELSE IF ~isValidId(fileId) \/ ~isValidId(userId) THEN SendError(404, "Not found")
     ELSE IF result = NoDoc THEN SendError(404, "Not found")
     ELSE Send(200, processFile(result))

getShow(cat, rds, xToken, fileId) ==
  LET userId == getUserIdAndKey(rds, xToken).userId
      result == getFile(cat, [_id |-> ObjectId(fileId, GeneratedId(cat)),
                              userId |-> ObjectId(userId, GeneratedId(cat))])
  IN \* ObjectId(userId) throws before any response is sent
     IF ~ObjectIdAccepts(userId) THEN Thrown
     ELSE IF getUser(ObjectId(userId, GeneratedId(cat))) = {}
       THEN SendError(401, "Unauthorized")
     ELSE IF ~isValidId(fileId) \/ ~isValidId(userId) THEN SendError(404, "Not found")
     ELSE IF result = NoDoc THEN SendError(404, "Not found")
     ELSE Send(200, processFile(result))

(***************************************************************************)
(* FilesController.getIndex                                                *)
(***************************************************************************)
\* items of one page: the $limit of the pipeline
PageSize == 20

\* Number(request.query.page) || 0, with NaN replaced by 0
PageNumber(page) == IF page.t = "number" THEN page.n ELSE 0

\* mutant: the $skip stage is dropped, every page starts at the first match
AggregateNoSkip(cat, parentId, skip, limit) ==
  LET matched == SelectSeq(cat, LAMBDA d : d.parentId = parentId)
  IN SubSeq(matched, 1, IF Len(matched) < limit THEN Len(matched) ELSE limit)

\* $match, $skip, $limit over the collection, in insertion order
Aggregate(cat, parentId, skip, limit) ==
  LET matched == SelectSeq(cat, LAMBDA d : d.parentId = parentId)
  IN SubSeq(matched, skip + 1,
            IF Len(matched) < skip + limit THEN Len(matched) ELSE skip + limit)

\* fileCursor.forEach(doc => fileList.push(processFile(doc)))
ProcessAll(docs) == [i \in 1..Len(docs) |-> processFile(docs[i])]

\* mutant: the $match stage is scoped to the caller's records
getIndexOwnedOnly(cat, rds, xToken, queryParentId, queryPage) ==
  LET userId == getUserIdAndKey(rds, xToken).userId
      given == IF Truthy(queryParentId) THEN queryParentId ELSE Str0
      root == given = Str0
      page == PageNumber(queryPage)
      parentId == IF root THEN 0 ELSE ObjectId(given, GeneratedId(cat))
      folder == getFile(cat, [_id |-> parentId])
      owned == SelectSeq(cat, LAMBDA d : toString(d.userId) = userId)
  IN IF ~ObjectIdAccepts(userId) THEN Thrown
     ELSE IF getUser(ObjectId(userId, GeneratedId(cat))) = {}
       THEN SendError(401, "Unauthorized")
     ELSE IF ~root /\ ~isValidId(given) THEN SendError(401, "Unauthorized")
     ELSE IF ~root /\ (folder = NoDoc \/ folder.type # "folder") THEN Send(200, <<>>)
     ELSE IF page * PageSize < 0 THEN Thrown
     ELSE Send(200, ProcessAll(Aggregate(owned, parentId, page * PageSize, PageSize)))

getIndex(cat, rds, xToken, queryParentId, queryPage) ==
  LET userId == getUserIdAndKey(rds, xToken).userId
      given == IF Truthy(queryParentId) THEN queryParentId ELSE Str0
      root == given = Str0
      page == PageNumber(queryPage)
      parentId == IF root THEN 0 ELSE ObjectId(given, GeneratedId(cat))
      folder == getFile(cat, [_id |-> parentId])
  IN IF ~ObjectIdAccepts(userId) THEN Thrown
     ELSE IF getUser(ObjectId(userId, GeneratedId(cat))) = {}
       THEN SendError(401, "Unauthorized")
     ELSE IF ~root /\ ~isValidId(given) THEN SendError(401, "Unauthorized")
     ELSE IF ~root /\ (folder = NoDoc \/ folder.type # "folder") THEN Send(200, <<>>)
     \* a negative $skip is rejected by the server: forEach rejects
     ELSE IF page * PageSize < 0 THEN Thrown
     ELSE Send(200, ProcessAll(Aggregate(cat, parentId, page * PageSize, PageSize)))

(***************************************************************************)
(* fileUtils.publishUnpublish, FilesController.putPublish / putUnpublish   *)
(***************************************************************************)
\* filesCollection.findOneAndUpdate(query, {$set: {isPublic}}): the new catalog
\* mutant: the update is lost, the catalog is returned as it was
updateFileLost(cat, q, isPublic) == cat

\* mutant: every record of the user is updated (the filter drops _id)
updateFileMany(cat, q, isPublic) ==
  [i \in 1..Len(cat) |->
     IF cat[i].userId = q.userId THEN [cat[i] EXCEPT !.isPublic = isPublic] ELSE cat[i]]

updateFile(cat, q, isPublic) ==
  [i \in 1..Len(cat) |->
     IF Matches(cat[i], q) /\ \A j \in 1..(i - 1) : ~Matches(cat[j], q)
       THEN [cat[i] EXCEPT !.isPublic = isPublic]
       ELSE cat[i]]

\* mutant: the record is found and updated by its id alone, whoever owns it
publishUnpublishAnyOwner(cat, rds, xToken, fileId, setPublish) ==
  LET userId == getUserIdAndKey(rds, xToken).userId
      q == [_id |-> ObjectId(fileId, GeneratedId(cat))]
      file == getFile(cat, q)
      updated == updateFile(cat, q, setPublish)
      value == getFile(updated, q)
      none == [updatedFile |-> NoDoc, files |-> cat]
  IN IF ~isValidId(fileId) THEN [error |-> "Unauthorized", code |-> 401] @@ none
     ELSE IF ~isValidId(userId) THEN [error |-> "Unauthorized", code |-> 401] @@ none
     ELSE IF getUser(ObjectId(userId, GeneratedId(cat))) = {}
       THEN [error |-> "Unauthorized", code |-> 401] @@ none
     ELSE IF file = NoDoc THEN [error |-> "Not found", code |-> 404] @@ none
     ELSE [error |-> NoMsg, code |-> 200,
           updatedFile |-> [id |-> value._id, userId |-> value.userId,
                            name |-> value.name, type |-> value.type,
                            isPublic |-> value.isPublic, parentId |-> value.parentId],
           files |-> updated]

publishUnpublish(cat, rds, xToken, fileId, setPublish) ==
  LET userId == getUserIdAndKey(rds, xToken).userId
      q == [_id |-> ObjectId(fileId, GeneratedId(cat)),
            userId |-> ObjectId(userId, GeneratedId(cat))]
      file == getFile(cat, q)
      updated == updateFile(cat, q, setPublish)
      value == getFile(updated, q)
      none == [updatedFile |-> NoDoc, files |-> cat]
  IN IF ~isValidId(fileId) THEN [error |-> "Unauthorized", code |-> 401] @@ none
     ELSE IF ~isValidId(userId) THEN [error |-> "Unauthorized", code |-> 401] @@ none
     ELSE IF getUser(ObjectId(userId, GeneratedId(cat))) = {}
       THEN [error |-> "Unauthorized", code |-> 401] @@ none
     ELSE IF file = NoDoc THEN [error |-> "Not found", code |-> 404] @@ none
     ELSE [error |-> NoMsg, code |-> 200,
           updatedFile |-> [id |-> value._id, userId |-> value.userId,
                            name |-> value.name, type |-> value.type,
                            isPublic |-> value.isPublic, parentId |-> value.parentId],
           files |-> updated]

\* the response of putPublish and putUnpublish
putResponse(r) ==
  IF r.error # NoMsg THEN SendError(r.code, r.error) ELSE Send(r.code, r.updatedFile)

(***************************************************************************)
(* FilesController.getFile (the content of a file)                         *)
(***************************************************************************)
\* mutant: any signed-in caller passes, owner or not
isOwnerAndPublicAnyUser(file, userId) == Truthy(userId) \/ Truthy(file.isPublic)

isOwnerAndPublic(file, userId) ==
  ~(\/ (~Truthy(file.isPublic) /\ ~Truthy(userId))
    \/ (Truthy(userId) /\ toString(file.userId) # userId /\ ~Truthy(file.isPublic)))

\* request.query.size || 0: no size, or the width of a thumbnail
NoSize == 0
ThumbSize == 500

getFileData(bl, file, size) ==
  LET localPath == IF size # NoSize THEN Path(file.localPath[1], size) ELSE file.localPath
  IN IF localPath \in DOMAIN bl
       THEN [error |-> NoMsg, code |-> 0, data |-> bl[localPath]]
       ELSE [error |-> "Not found", code |-> 404, data |-> ""]

\* mutant: the type of the record is looked at before the access check
getFileRouteFolderFirst(cat, rds, bl, xToken, fileId, size) ==
  LET userId == getUserIdAndKey(rds, xToken).userId
      file == getFile(cat, [_id |-> ObjectId(fileId, GeneratedId(cat))])
      d == getFileData(bl, file, size)
  IN IF ~isValidId(fileId) THEN SendError(404, "Not found")
     ELSE IF file = NoDoc THEN SendError(404, "Not found")
     ELSE IF file.type = "folder" THEN SendError(400, "A folder doesn't have content")
     ELSE IF ~isOwnerAndPublic(file, userId) THEN SendError(404, "Not found")
     ELSE IF d.error # NoMsg THEN SendError(d.code, d.error)
     ELSE Send(200, [data |-> d.data])

getFileRoute(cat, rds, bl, xToken, fileId, size) ==
  LET userId == getUserIdAndKey(rds, xToken).userId
      file == getFile(cat, [_id |-> ObjectId(fileId, GeneratedId(cat))])
      d == getFileData(bl, file, size)
  IN IF ~isValidId(fileId) THEN SendError(404, "Not found")
     ELSE IF file = NoDoc \/ ~isOwnerAndPublic(file, userId)
       THEN SendError(404, "Not found")
     ELSE IF file.type = "folder" THEN SendError(400, "A folder doesn't have content")
     ELSE IF d.error # NoMsg THEN SendError(d.code, d.error)
     ELSE Send(200, [data |-> d.data])

(***************************************************************************)
(* Request inputs.                                                         *)
(***************************************************************************)
FileIds == 1..MaxFiles

\* the id parameter of a route: a string, never empty
RouteIds == {StrBad} \cup {Hex(k) : k \in FileIds}

\* the parentId and page of the query string of GET /files
QueryParentIds == {Undefined, StrBad} \cup {Hex(k) : k \in FileIds}
QueryPages == {Undefined, Num(1)}

Sizes == {NoSize, ThumbSize}

Names == {Missing, "a"}
Types == {Missing, "video", "folder", "file", "image"}
Datas == {Missing, "d"}
ParentIds == {Undefined, Null, Str0, Num(0), Num(5), StrEmpty, StrBad} \cup {Hex(k) : k \in FileIds}
IsPublics == {Undefined, JsTrue}

\* request bodies of POST /files that are uploaded: the well-formed bodies with
\* every shape of parentId, and every combination of present, absent and
\* ill-formed name, type and data with an absent, ill-formed or well-formed
\* parentId (file and image differ in the thumbnail job alone: the uploads are
\* images)
UploadBodies ==
  [name : {"a"}, type : {"folder", "image"}, data : {"d"}, parentId : ParentIds,
   isPublic : {Undefined}]
  \cup [name : Names, type : Types \ {"file"}, data : Datas,
        parentId : {Undefined, StrBad, Hex(1)}, isPublic : {Undefined}]

\* every request body, for the properties that range over requests
AllBodies == [name : Names, type : Types, data : Datas, parentId : ParentIds,
              isPublic : IsPublics]

\* the bodies that create folders, files and images under the root, and those
\* refused for their missing data
QueueBodies == [name : {"a"}, type : {"folder", "file", "image"}, data : Datas,
                parentId : {Undefined}, isPublic : {Undefined}]

\* the sessions of the upload specification
UploadRedisValues == {Hex(UserA), StrBad}

\* the bodies that create folders and files under the root, private or public
Bodies == [name : {"a"}, type : {"folder", "file"}, data : {"d"},
           parentId : {Undefined}, isPublic : IsPublics]

(***************************************************************************)
(* Actions.                                                                *)
(***************************************************************************)
\* the requests of POST /files that run concurrently, and one that is not
\* between two awaits
Procs == 1..MaxProcs
Idle == [pc |-> "idle"]

Reply(op, resp) == [op |-> op, status |-> resp.status, error |-> resp.error]

Init ==
  /\ redis = [k \in RedisKeys |-> Null]
  /\ files = <<>>
  /\ blobs = <<>>
  /\ queue = <<>>
  /\ last = [op |-> "none", status |-> 0, error |-> NoMsg]
  /\ uploads = [p \in Procs |-> Idle]

\* RedisClient.set(key, value, duration)
RedisSet(key, value) ==
  /\ redis' = [redis EXCEPT ![key] = value]
  /\ UNCHANGED <<files, blobs, queue, last, uploads>>

\* RedisClient.del(key)
RedisDel(key) ==
  /\ redis' = [redis EXCEPT ![key] = Null]
  /\ UNCHANGED <<files, blobs, queue, last, uploads>>

\* does the request get as far as writing a blob (mkdir, writeFile)
WritesBlob(xToken, body) ==
  /\ body.type # "folder"
  /\ postUpload(files, redis, blobs, queue, xToken, body, "ok", "ok").resp.status = 201

\* does the request get as far as awaiting fileQueue.add
Enqueues(xToken, body, fs) ==
  postUpload(files, redis, blobs, queue, xToken, body, fs, "ok").queue # queue

PostUpload(xToken, body, fs, enq) ==
  LET r == postUpload(files, redis, blobs, queue, xToken, body, fs, enq) IN
  /\ fs = "ok" \/ WritesBlob(xToken, body)
  /\ enq = "ok" \/ Enqueues(xToken, body, fs)
  /\ Len(r.files) <= MaxFiles
  /\ Len(r.queue) <= MaxJobs
  /\ files' = r.files
  /\ blobs' = r.blobs
  /\ queue' = r.queue
  /\ last' = Reply("postUpload", r.resp)
  /\ UNCHANGED <<redis, uploads>>

GetShow(xToken, fileId) ==
  /\ last' = Reply("getShow", getShow(files, redis, xToken, fileId))
  /\ UNCHANGED <<redis, files, blobs, queue, uploads>>

GetIndex(xToken, parentId, page) ==
  /\ last' = Reply("getIndex", getIndex(files, redis, xToken, parentId, page))
  /\ UNCHANGED <<redis, files, blobs, queue, uploads>>

PutPublish(xToken, fileId) ==
  LET r == publishUnpublish(files, redis, xToken, fileId, JsTrue) IN
  /\ files' = r.files
  /\ last' = Reply("putPublish", putResponse(r))
  /\ UNCHANGED <<redis, blobs, queue, uploads>>

PutUnpublish(xToken, fileId) ==
  LET r == publishUnpublish(files, redis, xToken, fileId, JsFalse) IN
  /\ files' = r.files
  /\ last' = Reply("putUnpublish", putResponse(r))
  /\ UNCHANGED <<redis, blobs, queue, uploads>>

GetFile(xToken, fileId, size) ==
  /\ last' = Reply("getFile", getFileRoute(files, redis, blobs, xToken, fileId, size))
  /\ UNCHANGED <<redis, files, blobs, queue, uploads>>

Next ==
  \/ \E k \in RedisKeys, v \in RedisValues : RedisSet(k, v)
  \/ \E k \in RedisKeys : RedisDel(k)
  \* (Bodies holds no image: no request of Spec awaits fileQueue.add)
  \/ \E t \in XTokens, b \in Bodies, fs \in FsOutcomes : PostUpload(t, b, fs, "ok")
  \/ \E t \in XTokens, id \in RouteIds : GetShow(t, id)
  \/ \E t \in XTokens, p \in QueryParentIds, g \in QueryPages : GetIndex(t, p, g)
  \/ \E t \in XTokens, id \in RouteIds : PutPublish(t, id)
  \/ \E t \in XTokens, id \in RouteIds : PutUnpublish(t, id)
  \/ \E t \in XTokens, id \in RouteIds, z \in Sizes : GetFile(t, id, z)

Spec == Init /\ [][Next]_vars

\* sessions and uploads only, with every shape of request body
NextUpload ==
  \/ \E k \in RedisKeys, v \in UploadRedisValues : RedisSet(k, v)
  \/ \E k \in RedisKeys : RedisDel(k)
  \/ \E t \in XTokens, b \in UploadBodies, fs \in FsOutcomes : PostUpload(t, b, fs, "ok")

SpecUpload == Init /\ [][NextUpload]_vars

\* sessions and uploads of folders, files and images, with every outcome of
\* the blob write and of the enqueue
NextQueue ==
  \/ \E k \in RedisKeys, v \in UploadRedisValues : RedisSet(k, v)
  \/ \E k \in RedisKeys : RedisDel(k)
  \/ \E t \in XTokens, b \in QueueBodies, fs \in FsOutcomes, enq \in EnqueueOutcomes :
       PostUpload(t, b, fs, enq)

SpecQueue == Init /\ [][NextQueue]_vars

(***************************************************************************)
(* Vocabulary of the properties.                                           *)
(***************************************************************************)
UserIds == {u._id : u \in usersCollection}

\* the user id the token resolves to in the Identity Store, 0 if none
Caller(rds, t) ==
  IF t # NoToken /\ rds["auth_" \o t].t = "hex" THEN rds["auth_" \o t].n ELSE 0

\* the token resolves to the id of a user of the User Directory
Authorized(rds, t) == Caller(rds, t) \in UserIds

\* the route id names a record of the catalog
Exists(cat, id) == id.t = "hex" /\ id.n \in 1..Len(cat)

NotFound == SendError(404, "Not found")
Unauthorized == SendError(401, "Unauthorized")

(***************************************************************************)
(* C1: readContent returns the bytes of a file only if the file exists and *)
(* is public or the token resolves to its owner; for every other caller    *)
(* (no token, a token that resolves to nothing, another user's token on a  *)
(* private file) the answer is 404 'Not found'; and a record that is not a *)
(* folder and whose blob is stored is read with 200 by anyone if public,   *)
(* by its owner if private.                                                *)
(***************************************************************************)
ReadContentAccess ==
  \A t \in XTokens, id \in RouteIds, z \in Sizes :
    LET r == getFileRoute(files, redis, blobs, t, id, z)
        f == files[id.n]
        allowed == /\ Exists(files, id)
                   /\ (f.isPublic = JsTrue \/ Caller(redis, t) = f.userId)
    IN /\ r.status = 200 =>
            allowed /\ r.body = [data |-> blobs[Path(f.localPath[1], z)]]
       /\ ~allowed => r = NotFound
       /\ (allowed /\ f.type # "folder" /\ Path(f.localPath[1], z) \in DOMAIN blobs)
            => r.status = 200

\* the owner has read a private file: no record is public, and the read sent 200
ReadContentAccessWitness ==
  /\ last.op = "getFile" /\ last.status = 200
  /\ \A i \in 1..Len(files) : files[i].isPublic = JsFalse
  /\ \E i \in 1..Len(files) : files[i].userId = Caller(redis, "t1")
  /\ \E i \in 1..Len(files) : files[i].userId # Caller(redis, "t1")

(***************************************************************************)
(* C2: getShow does not leak other users' files. For an authorized caller  *)
(* and a well-formed id, the answer for a record of another user is the    *)
(* 404 'Not found' given for an id that names nothing, public or not; and  *)
(* the answer is the same on every catalog that differs only in records    *)
(* the caller does not own (here: those records removed, or their isPublic *)
(* flipped).                                                               *)
(***************************************************************************)
OwnedBy(cat, u) == SelectSeq(cat, LAMBDA d : d.userId = u)

FlipOthers(cat, u) ==
  [i \in 1..Len(cat) |->
     IF cat[i].userId = u THEN cat[i]
     ELSE [cat[i] EXCEPT !.isPublic = IF @ = JsTrue THEN JsFalse ELSE JsTrue]]

GetShowNoLeak ==
  \A t \in XTokens, id \in RouteIds :
    (Authorized(redis, t) /\ id.t = "hex") =>
      LET caller == Caller(redis, t)
          r == getShow(files, redis, t, id)
      IN /\ (Exists(files, id) /\ files[id.n].userId # caller) => r = NotFound
         /\ ~Exists(files, id) => r = NotFound
         /\ r = getShow(OwnedBy(files, caller), redis, t, id)
         /\ r = getShow(FlipOthers(files, caller), redis, t, id)

\* an authorized caller has asked for records that all belong to the other
\* user, one of them public, and was answered 404
GetShowNoLeakWitness ==
  /\ last.op = "getShow" /\ last.status = 404
  /\ Authorized(redis, "t1")
  /\ Len(files) = MaxFiles
  /\ \A i \in 1..Len(files) : files[i].userId # Caller(redis, "t1")
  /\ files[1].isPublic = JsTrue
  /\ getShow(files, redis, "t1", Hex(1)) = NotFound

(***************************************************************************)
(* C5: visibility changes take effect at once for anonymous reads of a     *)
(* record that is not a folder: a step in which putPublish answers 200 for *)
(* the record leaves it readable without a token (200), a step in which    *)
(* putUnpublish answers 200 leaves it unreadable (404), and no other step  *)
(* changes the answer of the anonymous read.                               *)
(***************************************************************************)
AnonRead(cat, rds, bl, id) ==
  getFileRoute(cat, rds, bl, NoToken, Hex(id), NoSize).status

\* the step is a putPublish (putUnpublish) of record id answered 200
Published(id) ==
  /\ last'.op = "putPublish" /\ last'.status = 200
  /\ \E t \in XTokens : PutPublish(t, Hex(id))

Unpublished(id) ==
  /\ last'.op = "putUnpublish" /\ last'.status = 200
  /\ \E t \in XTokens : PutUnpublish(t, Hex(id))

VisibilityImmediate ==
  [][\A id \in FileIds :
       (id <= Len(files) /\ files[id].type # "folder") =>
         LET before == AnonRead(files, redis, blobs, id)
             after == AnonRead(files', redis', blobs', id)
         IN /\ ~Published(id) \/ after = 200
            /\ ~Unpublished(id) \/ after = 404
            \* the read is a function of catalog, sessions and blobs: a step
            \* that leaves the three alone leaves its answer alone
            /\ \/ UNCHANGED <<files, redis, blobs>>
               \/ /\ (before = 200 /\ after # 200) => Unpublished(id)
                  /\ (before = 404 /\ after # 404) => Published(id)]_vars

\* a file that is not a folder has been unpublished by its owner, and the
\* anonymous read of it is answered 404
VisibilityImmediateWitness ==
  /\ last.op = "putUnpublish" /\ last.status = 200
  /\ \E id \in 1..Len(files) :
       /\ files[id].type # "folder"
       /\ files[id].userId = Caller(redis, "t1")
       /\ AnonRead(files, redis, blobs, id) = 404

(***************************************************************************)
(* C6: a record, once inserted, keeps its userId, type, name, parentId and *)
(* localPath in every step; its isPublic changes only in a putPublish or   *)
(* putUnpublish step for that record; and such a step answered 200 sets    *)
(* isPublic of that record, leaves every other record as it was and the    *)
(* number of records unchanged.                                            *)
(***************************************************************************)
RecordImmutability ==
  [][/\ Len(files') >= Len(files)
     /\ \A i \in 1..Len(files) :
          \/ files'[i] = files[i]
          \/ /\ files'[i] = [files[i] EXCEPT !.isPublic = files'[i].isPublic]
             /\ Published(i) \/ Unpublished(i)
     /\ \A id \in FileIds :
          /\ Published(id) => files' = [files EXCEPT ![id].isPublic = JsTrue]
          /\ Unpublished(id) => files' = [files EXCEPT ![id].isPublic = JsFalse]]_vars

\* the owner of two records has published one of them; the other stays private
RecordImmutabilityWitness ==
  /\ last.op = "putPublish" /\ last.status = 200
  /\ Len(files) = 2
  /\ files[1].userId = files[2].userId
  /\ files[1].isPublic # files[2].isPublic

IdentityRequired ==
  [][\A t \in XTokens :
       ~Authorized(redis, t) =>
         /\ (\E b \in Bodies, fs \in FsOutcomes : PostUpload(t, b, fs, "ok")) =>
              last'.status = 401 /\ last'.error = "Unauthorized" /\ files' = files
         /\ (\E id \in RouteIds : GetShow(t, id)) =>
              last'.status = 401 /\ last'.error = "Unauthorized"
         /\ (\E p \in QueryParentIds, g \in QueryPages : GetIndex(t, p, g)) =>
              last'.status = 401 /\ last'.error = "Unauthorized"
         /\ (\E id \in RouteIds : PutPublish(t, id) \/ PutUnpublish(t, id)) =>
              last'.status = 401 /\ last'.error = "Unauthorized" /\ files' = files]_vars

(***************************************************************************)
(* C9: no body sent with 201 by createFile, or with 200 by getFile,        *)
(* listFiles (every element) or setVisibility, has a localPath field.      *)
(***************************************************************************)
NoLocalPath(doc) == "localPath" \notin DOMAIN doc

LocalPathNeverExposed ==
  /\ \A t \in XTokens, b \in Bodies :
       LET r == postUpload(files, redis, blobs, queue, t, b, "ok", "ok").resp
       IN r.status = 201 => NoLocalPath(r.body)
  /\ \A t \in XTokens, id \in RouteIds :
       LET r == getShow(files, redis, t, id)
       IN r.status = 200 => NoLocalPath(r.body)
  /\ \A t \in XTokens, p \in QueryParentIds, g \in QueryPages :
       LET r == getIndex(files, redis, t, p, g)
       IN r.status = 200 => \A i \in 1..Len(r.body) : NoLocalPath(r.body[i])
  /\ \A t \in XTokens, id \in RouteIds, v \in {JsTrue, JsFalse} :
       LET r == putResponse(publishUnpublish(files, redis, t, id, v))
       IN r.status = 200 => NoLocalPath(r.body)

\* the records, all with a localPath, have been listed to an authorized caller
LocalPathNeverExposedWitness ==
  /\ last.op = "getIndex" /\ last.status = 200
  /\ Len(files) = MaxFiles
  /\ \A i \in 1..Len(files) : "localPath" \in DOMAIN files[i]
  /\ Len(getIndex(files, redis, "t1", Undefined, Undefined).body) = MaxFiles

(***************************************************************************)
(* C3: every record of the catalog has parentId 0 (the root) or the id of  *)
(* a record of the catalog whose type is folder, whatever the bodies of    *)
(* the requests were.                                                      *)
(***************************************************************************)
HierarchyInvariant ==
  \A i \in 1..Len(files) :
    \/ files[i].parentId = 0
    \/ /\ files[i].parentId \in 1..Len(files)
       /\ files[files[i].parentId].type = "folder"

(***************************************************************************)
(* C4: the checks of createFile are ordered and fail-fast. The answer is   *)
(* that of the first failing check in the order: authorization (401        *)
(* 'Unauthorized'), name ('Missing name'), type ('Missing type'), data     *)
(* ('Missing data'), a parentId that is set, not the root, and ill-formed  *)
(* or naming no record ('Parent not found'), a parent that is no folder    *)
(* ('Parent is not a folder'), each 400 after the first; a request that    *)
(* fails none is answered 201 and adds one record (the blob being          *)
(* written). A parentId that is absent, null, 0 or '0' is not set.         *)
(***************************************************************************)
Created == Send(201, NoDoc)

FirstFailure(cat, rds, t, b) ==
  LET p == b.parentId
      set == p \notin {Undefined, Null, Num(0), Str0}
      parent == IF p.t = "hex" /\ p.n \in 1..Len(cat) THEN cat[p.n] ELSE NoDoc
  IN IF ~Authorized(rds, t) THEN Unauthorized
     ELSE IF b.name = Missing THEN SendError(400, "Missing name")
     ELSE IF b.type \notin {"folder", "file", "image"} THEN SendError(400, "Missing type")
     ELSE IF b.data = Missing /\ b.type # "folder" THEN SendError(400, "Missing data")
     ELSE IF set /\ parent = NoDoc THEN SendError(400, "Parent not found")
     ELSE IF set /\ parent.type # "folder" THEN SendError(400, "Parent is not a folder")
     ELSE Created

CreateChecksOrdered ==
  \A t \in XTokens, b \in AllBodies :
    LET r == postUpload(files, redis, blobs, queue, t, b, "ok", "ok")
        first == FirstFailure(files, redis, t, b)
    IN IF first = Created
         THEN r.resp.status = 201 /\ Len(r.files) = Len(files) + 1
         ELSE r.resp = first /\ r.files = files

\* a request of an authorized caller that failed the name check was answered
\* 'Missing name', in a state where a request failing all of name, type, data
\* and parent (a record that is no folder) is answered 'Missing name' too
CreateChecksOrderedWitness ==
  /\ last = [op |-> "postUpload", status |-> 400, error |-> "Missing name"]
  /\ Authorized(redis, "t1")
  /\ Len(files) >= 1 /\ files[1].type # "folder"
  /\ postUpload(files, redis, blobs, queue, "t1",
                [name |-> Missing, type |-> "video", data |-> Missing,
                 parentId |-> Hex(1), isPublic |-> Undefined], "ok", "ok").resp
       = SendError(400, "Missing name")

(***************************************************************************)
(* C10: a record of the catalog has a localPath field if and only if its   *)
(* type is not folder; and a folder creation answered 201, with or without *)
(* data in the request, stores and returns a record of type folder with no *)
(* localPath.                                                              *)
(***************************************************************************)
LocalPathIffNotFolder ==
  /\ \A i \in 1..Len(files) : ("localPath" \in DOMAIN files[i]) <=> files[i].type # "folder"
  /\ \A t \in XTokens, b \in {x \in AllBodies : x.type = "folder"} :
       LET r == postUpload(files, redis, blobs, queue, t, b, "ok", "ok")
       IN r.resp.status = 201 =>
            /\ r.resp.body.type = "folder" /\ NoLocalPath(r.resp.body)
            /\ r.files[Len(r.files)].type = "folder"
            /\ NoLocalPath(r.files[Len(r.files)])
            /\ r.blobs = blobs

\* a folder and an image have been created
LocalPathIffNotFolderWitness ==
  /\ last.op = "postUpload" /\ last.status = 201
  /\ \E i \in 1..Len(files) : files[i].type = "folder"
  /\ \E i \in 1..Len(files) : files[i].type = "image"

(***************************************************************************)
(* C11: listFiles is permissive about parentId: for an authorized caller   *)
(* and a parentId that is not the root and names no folder of the catalog  *)
(* (it names a record that is no folder, names nothing, or cannot be used  *)
(* as an id), the answer is 200 with the empty list.                       *)
(***************************************************************************)
\* the parentId of the query is the root: absent, or '0'
RootQuery(p) == p \in {Undefined, StrEmpty, Str0}

\* the parentId of the query names a folder of the catalog
NamesFolder(cat, p) == Exists(cat, p) /\ cat[p.n].type = "folder"

ListPermissive ==
  [][\A t \in XTokens, p \in QueryParentIds, g \in QueryPages :
       (/\ Authorized(redis, t)
        /\ ~RootQuery(p) /\ ~NamesFolder(files, p)
        /\ GetIndex(t, p, g)) =>
          /\ last'.status = 200
          /\ getIndex(files, redis, t, p, g).body = <<>>]_vars

\* the parentId the records listed for the query carry
ParentOf(p) == IF RootQuery(p) THEN 0 ELSE p.n

\* the Identity Store in which every token is the session of user u
SessionOf(u) == [k \in RedisKeys |-> Hex(u)]

(***************************************************************************)
(* C14: when writing the blob of a file upload that passed authorization   *)
(* and validation fails, the request is answered 400 and no record is      *)
(* inserted.                                                               *)
(***************************************************************************)
PlacementFailureAnswered ==
  [][\A t \in XTokens, b \in Bodies :
       (WritesBlob(t, b) /\ PostUpload(t, b, "fail", "ok")) =>
         last'.status = 400 /\ files' = files]_vars

(***************************************************************************)
(* C19: a token stops resolving when its key leaves the Identity Store.    *)
(* While no value is held under 'auth_'+token, createFile, getFile,        *)
(* listFiles and setVisibility with the token answer 401 and readContent   *)
(* answers as it does without a token; a deletion empties the key, and an  *)
(* empty key gets a value again by a set of that key only.                 *)
(***************************************************************************)
Revoked(rds, t) == t # NoToken /\ rds["auth_" \o t] = Null

SignedOutAnswers ==
  \A t \in XTokens :
    Revoked(redis, t) =>
      /\ \A b \in Bodies :
           LET r == postUpload(files, redis, blobs, queue, t, b, "ok", "ok")
           IN r.resp = Unauthorized /\ r.files = files
      /\ \A id \in RouteIds :
           /\ getShow(files, redis, t, id) = Unauthorized
           /\ \A v \in {JsTrue, JsFalse} :
                LET r == publishUnpublish(files, redis, t, id, v)
                IN putResponse(r) = Unauthorized /\ r.files = files
           /\ \A z \in Sizes :
                getFileRoute(files, redis, blobs, t, id, z)
                  = getFileRoute(files, redis, blobs, NoToken, id, z)
      /\ \A p \in QueryParentIds, g \in QueryPages :
           getIndex(files, redis, t, p, g) = Unauthorized

SessionRevocation ==
  /\ []SignedOutAnswers
  /\ [][\A k \in RedisKeys :
          /\ RedisDel(k) => redis'[k] = Null
          /\ (redis[k] = Null /\ redis'[k] # Null) =>
               \E v \in RedisValues : RedisSet(k, v)]_vars

\* a user who created a record signed out, and the token was then refused
SessionRevocationWitness ==
  /\ Revoked(redis, "t1")
  /\ Len(files) >= 1
  /\ last.op = "getShow" /\ last.status = 401

(***************************************************************************)
(* C20: every request is answered: whatever the input and the state of the *)
(* stores, the handler sends one response with status 201, 200, 400, 401   *)
(* or 404; none is left unanswered by an exception.                        *)
(***************************************************************************)
EveryRequestAnswered ==
  last.op # "none" => last.status \in {200, 201, 400, 401, 404}

(***************************************************************************)
(* C15: thumbnail jobs follow inserts. A step adds to the queue only when  *)
(* it is a createFile answered 201 that inserted a record of type image,   *)
(* and then it adds exactly one job, carrying the id of that record and    *)
(* the id of its owner; a createFile answered 401 or 400, and the creation *)
(* of a folder or a file, add nothing.                                     *)
(***************************************************************************)
\* the thumbnail job of the record the step inserted
JobOfInserted ==
  [fileId |-> Hex(files'[Len(files')]._id), userId |-> Hex(files'[Len(files')].userId)]

JobsFollowInserts ==
  [][/\ queue' # queue =>
          /\ last'.op = "postUpload" /\ last'.status = 201
          /\ Len(files') = Len(files) + 1
          /\ files'[Len(files')].type = "image"
          /\ queue' = Append(queue, JobOfInserted)
     /\ (last'.op = "postUpload" /\ last'.status = 201 /\ files' # files
         /\ files'[Len(files')].type = "image") =>
          queue' = Append(queue, JobOfInserted)]_vars

(***************************************************************************)
(* C16: the enqueue of the thumbnail job is fire-and-forget: a createFile  *)
(* that inserted a record of type image is answered 201 whether the        *)
(* enqueue succeeds, fails or never completes.                             *)
(***************************************************************************)
EnqueueFireAndForget ==
  [][(/\ Len(files') = Len(files) + 1
      /\ files'[Len(files')].type = "image") =>
        last'.op = "postUpload" /\ last'.status = 201]_vars

(***************************************************************************)
(* Listing page by page. Two users upload in turn: a folder first, then    *)
(* files, every stride-th of them into the folder and the others at the    *)
(* root.                                                                   *)
(***************************************************************************)
Strides == {2, 10}

\* the body of the n-th upload
NthBody(n, stride) ==
  [name |-> "a", type |-> IF n = 1 THEN "folder" ELSE "file", data |-> "d",
   parentId |-> IF n > 1 /\ n % stride = 0 THEN Hex(1) ELSE Undefined,
   isPublic |-> Undefined]

\* the stride the uploads of the catalog follow, told by its second record
StrideOf(cat) == IF cat[2].parentId = 0 THEN 10 ELSE 2

\* POST /files of the next body, by the user whose turn it is
UploadNth(stride) ==
  LET n == Len(files) + 1
      r == postUpload(files, redis, blobs, queue, "t1", NthBody(n, stride), "ok", "ok")
  IN /\ n <= MaxCatalog
     /\ IF n <= 2 THEN TRUE ELSE stride = StrideOf(files)
     /\ Caller(redis, "t1") = IF n % 2 = 1 THEN UserA ELSE UserB
     /\ files' = r.files
     /\ blobs' = r.blobs
     /\ queue' = r.queue
     /\ last' = Reply("postUpload", r.resp)
     /\ UNCHANGED <<redis, uploads>>

\* the parentId and page of the query string
PageParentIds == {Undefined, Hex(1), Hex(2)}
PageNumbers == 0..MaxPage
PagePages == {Undefined, StrBad, Num(0 - 1)} \cup {Num(k) : k \in PageNumbers}

NextPages ==
  \/ \E k \in RedisKeys, v \in RedisValues : RedisSet(k, v)
  \/ \E k \in RedisKeys : RedisDel(k)
  \/ \E stride \in Strides : UploadNth(stride)
  \/ \E t \in XTokens, p \in PageParentIds, g \in PagePages : GetIndex(t, p, g)

SpecPages == Init /\ [][NextPages]_vars

(***************************************************************************)
(* C12: pagination of listFiles over a catalog state. For a parentId (the  *)
(* root or the id of a record) and a page p >= 0, the list is exactly the  *)
(* records with that parentId at positions [20p, 20p + 20) of insertion    *)
(* order: at most 20 items, in order, none shared by pages p and p + 1,    *)
(* every matching record on exactly one page; and a page that is absent or *)
(* not a number gives the list of page 0.                                  *)
(***************************************************************************)
\* the records of a parent, and the position of one among them (from 0)
MatchIds(cat, parent) == {i \in 1..Len(cat) : cat[i].parentId = parent}

Rank(cat, parent, i) == Cardinality({j \in MatchIds(cat, parent) : j < i})

\* the ids of the records of a list
IdsOf(list) == {list[j].id : j \in 1..Len(list)}

ListPaged ==
  \A t \in XTokens, p \in PageParentIds :
    Authorized(redis, t) =>
      /\ \A k \in PageNumbers :
           LET r == getIndex(files, redis, t, p, Num(k))
               next == getIndex(files, redis, t, p, Num(k + 1))
               first == k * PageSize
           IN /\ r.status = 200
              /\ Len(r.body) <= PageSize
              /\ \A j \in 1..Len(r.body) :
                   /\ r.body[j].id \in MatchIds(files, ParentOf(p))
                   /\ Rank(files, ParentOf(p), r.body[j].id) = first + j - 1
                   /\ r.body[j] = processFile(files[r.body[j].id])
              /\ \A i \in MatchIds(files, ParentOf(p)) :
                   Rank(files, ParentOf(p), i) \in first..(first + PageSize - 1) =>
                     i \in IdsOf(r.body)
              /\ IdsOf(r.body) \cap IdsOf(next.body) = {}
      /\ \A g \in {Undefined, StrBad} :
           getIndex(files, redis, t, p, g) = getIndex(files, redis, t, p, Num(0))

\* a caller has listed a root of more than two pages
ListPagedWitness ==
  /\ last.op = "getIndex" /\ last.status = 200
  /\ Authorized(redis, "t1")
  /\ Len(getIndex(files, redis, "t1", Undefined, Num(1)).body) = PageSize
  /\ Len(getIndex(files, redis, "t1", Undefined, Num(2)).body) >= 1
  /\ Len(getIndex(files, redis, "t1", Hex(1), Num(0)).body) >= 1

(***************************************************************************)
(* C13: listFiles is scoped by parentId alone: the first page an           *)
(* authorized caller gets for a parent holds the first 20 records of that  *)
(* parent, the records of other users and the private ones included, and   *)
(* any two authorized callers get the same answer for the same parentId    *)
(* and page.                                                               *)
(***************************************************************************)
ListNotScopedByOwner ==
  \A p \in PageParentIds :
    /\ \A t \in XTokens :
         LET r == getIndex(files, redis, t, p, Undefined)
         IN (Authorized(redis, t) /\ (RootQuery(p) \/ NamesFolder(files, p))) =>
               /\ r.status = 200
               /\ \A i \in MatchIds(files, ParentOf(p)) :
                    Rank(files, ParentOf(p), i) < PageSize =>
                      \E j \in 1..Len(r.body) : r.body[j] = processFile(files[i])
    /\ \A g \in PagePages, u \in UserIds :
         getIndex(files, SessionOf(u), "t1", p, g)
           = getIndex(files, SessionOf(UserA), "t1", p, g)

\* a caller has listed the root, which holds a private record of another user
ListNotScopedByOwnerWitness ==
  /\ last.op = "getIndex" /\ last.status = 200
  /\ Authorized(redis, "t1")
  /\ \E i \in 1..Len(files) :
       /\ files[i].userId # Caller(redis, "t1")
       /\ files[i].isPublic = JsFalse /\ files[i].parentId = 0
       /\ LET r == getIndex(files, redis, "t1", Undefined, Undefined)
          IN \E j \in 1..Len(r.body) : r.body[j].id = i

(***************************************************************************)
(* Uploads into folders and retrieval by id.                               *)
(***************************************************************************)
\* the bodies that create folders and files at the root or under a record
TreeBodies == [name : {"a"}, type : {"folder", "file"}, data : {"d"},
               parentId : {Undefined} \cup {Hex(k) : k \in FileIds},
               isPublic : IsPublics]

TreeRedisValues == {Hex(UserA)}

NextTree ==
  \/ \E k \in RedisKeys, v \in TreeRedisValues : RedisSet(k, v)
  \/ \E k \in RedisKeys : RedisDel(k)
  \/ \E t \in XTokens, b \in TreeBodies, fs \in FsOutcomes : PostUpload(t, b, fs, "ok")
  \/ \E t \in XTokens, id \in RouteIds : GetShow(t, id)

SpecTree == Init /\ [][NextTree]_vars

(***************************************************************************)
(* C18: round trip through the hierarchy. When a user creates a file X     *)
(* with parentId the id of a folder F, getFile(X.id) by that user returns  *)
(* a record whose parentId is F.id and whose name, type, userId and        *)
(* isPublic are those of the creation; and a createFile with parentId      *)
(* X.id is then answered 400 'Parent is not a folder' and adds no record.  *)
(***************************************************************************)
HierarchyRoundTrip ==
  \A t \in XTokens, b \in TreeBodies, f \in 1..Len(files) :
    (/\ Authorized(redis, t)
     /\ files[f].type = "folder"
     /\ b.type = "file" /\ b.parentId = Hex(f)) =>
       LET r == postUpload(files, redis, blobs, queue, t, b, "ok", "ok")
           x == Len(r.files)
           got == getShow(r.files, redis, t, Hex(x))
       IN /\ r.resp.status = 201 /\ x = Len(files) + 1
          /\ got.status = 200
          /\ got.body.id = r.resp.body.id
          /\ got.body.parentId = files[f]._id
          /\ got.body.name = b.name /\ got.body.type = b.type
          /\ got.body.userId = Caller(redis, t)
          /\ got.body.isPublic = (IF b.isPublic = Undefined THEN JsFalse ELSE b.isPublic)
          /\ \A b2 \in TreeBodies :
               LET r2 == postUpload(r.files, redis, r.blobs, r.queue, t,
                                    [b2 EXCEPT !.parentId = Hex(x)], "ok", "ok")
               IN /\ r2.resp = SendError(400, "Parent is not a folder")
                  /\ r2.files = r.files

\* a user has created a folder, a file in it, and retrieved the file
HierarchyRoundTripWitness ==
  /\ last.op = "getShow" /\ last.status = 200
  /\ Len(files) = 2
  /\ files[1].type = "folder" /\ files[2].type = "file"
  /\ files[1].userId = Caller(redis, "t1") /\ files[2].userId = Caller(redis, "t1")
  /\ getShow(files, redis, "t1", Hex(2)).body.parentId = 1
  /\ postUpload(files, redis, blobs, queue, "t1",
                [name |-> "a", type |-> "file", data |-> "d", parentId |-> Hex(2),
                 isPublic |-> Undefined], "ok", "ok").resp
       = SendError(400, "Parent is not a folder")

(***************************************************************************)
(* Concurrent uploads. A request of POST /files for a file or an image     *)
(* that passed authorization and validation yields at each await of        *)
(* saveFile: after the name of the blob is drawn (before mkdir and         *)
(* writeFile) and after the blob is written (before insertOne). The        *)
(* requests of Procs interleave at these points.                           *)
(***************************************************************************)
\* the bodies of the concurrent uploads: files and images, of two contents
ConcurrentBodies == [name : {"a"}, type : {"file", "image"}, data : {"d", "e"},
                     parentId : {Undefined}, isPublic : {Undefined}]

ConcurrentRedisValues == {Hex(UserA), Hex(UserB)}

\* the names of blobs the requests in flight hold
Held == [path \in {Path(uploads[p].uuid, 0) : p \in {q \in Procs : uploads[q] # Idle}}
           |-> ""]

\* saveFile up to the await of mkdir: the query, the name and the path
UploadBegin(p, xToken, body) ==
  LET userId == getUserIdAndKey(redis, xToken).userId
      fileParams == validateBody(files, body).fileParams
  IN /\ uploads[p] = Idle
     /\ WritesBlob(xToken, body)
     /\ Len(files) + Cardinality({q \in Procs : uploads[q] # Idle}) < MaxFiles
     /\ uploads' = [uploads EXCEPT ![p] =
                      [pc |-> "write", userId |-> userId, fileParams |-> fileParams,
                       uuid |-> uuidv4(Held @@ blobs)]]
     /\ UNCHANGED <<redis, files, blobs, queue, last>>

\* mkdir and writeFile: the blob is written at the path, or the write fails
\* and the handler throws on response.body
UploadWrite(p, fs) ==
  /\ uploads[p] # Idle /\ uploads[p].pc = "write"
  /\ IF fs = "ok"
       THEN /\ blobs' = (Path(uploads[p].uuid, 0) :>
                           Base64Decode(uploads[p].fileParams.data)) @@ blobs
            /\ uploads' = [uploads EXCEPT ![p].pc = "insert"]
            /\ UNCHANGED last
       ELSE /\ uploads' = [uploads EXCEPT ![p] = Idle]
            /\ last' = Reply("postUpload", Thrown)
            /\ UNCHANGED blobs
  /\ UNCHANGED <<redis, files, queue>>

\* insertOne, the thumbnail job of an image, and the 201
UploadInsert(p) ==
  LET u == uploads[p]
      document == [userId |-> ObjectId(u.userId, GeneratedId(files)),
                   name |-> u.fileParams.name,
                   type |-> u.fileParams.type,
                   isPublic |-> u.fileParams.isPublic,
                   parentId |-> 0,
                   localPath |-> Path(u.uuid, 0)]
      inserted == insertOne(files, document)
      newFile == processFile(inserted[Len(inserted)])
  IN /\ uploads[p] # Idle /\ uploads[p].pc = "insert"
     /\ Len(files) < MaxFiles
     /\ u.fileParams.type = "image" => Len(queue) < MaxJobs
     /\ files' = inserted
     /\ queue' = IF u.fileParams.type = "image"
                   THEN QueueAdd(queue, [fileId |-> toString(newFile.id),
                                         userId |-> toString(newFile.userId)])
                   ELSE queue
     /\ last' = Reply("postUpload", Send(201, newFile))
     /\ uploads' = [uploads EXCEPT ![p] = Idle]
     /\ UNCHANGED <<redis, blobs>>

NextConcurrent ==
  \/ \E k \in RedisKeys, v \in ConcurrentRedisValues : RedisSet(k, v)
  \/ \E p \in Procs, t \in XTokens, b \in ConcurrentBodies : UploadBegin(p, t, b)
  \/ \E p \in Procs, fs \in FsOutcomes : UploadWrite(p, fs)
  \/ \E p \in Procs : UploadInsert(p)

SpecConcurrent == Init /\ [][NextConcurrent]_vars

(***************************************************************************)
(* C17: no location collision under concurrency. In every interleaving of  *)
(* uploads of files and images, by one user or several, of the same bytes  *)
(* or not, the records of the catalog have pairwise different localPaths,  *)
(* and a blob, once written, is never written again: a write adds a blob   *)
(* at a path that had none.                                                *)
(***************************************************************************)
LocalPathInjective ==
  \A i \in 1..Len(files), j \in 1..Len(files) :
    (i # j /\ "localPath" \in DOMAIN files[i] /\ "localPath" \in DOMAIN files[j]) =>
      files[i].localPath # files[j].localPath

NoLocationCollision ==
  /\ []LocalPathInjective
  /\ [][/\ \A path \in DOMAIN blobs :
             path \in DOMAIN blobs' /\ blobs'[path] = blobs[path]
        /\ \A p \in Procs :
             (uploads[p] # Idle /\ uploads'[p] # Idle /\ uploads'[p].pc = "insert"
              /\ uploads[p].pc = "write") =>
               Path(uploads[p].uuid, 0) \notin DOMAIN blobs]_vars

\* two uploads of the same bytes by the same user have both written their
\* blob, and neither record is inserted yet
NoLocationCollisionWitness ==
  /\ \A p \in Procs : uploads[p] # Idle /\ uploads[p].pc = "insert"
  /\ \A p \in Procs, q \in Procs :
       /\ uploads[p].fileParams.data = uploads[q].fileParams.data
       /\ uploads[p].userId = uploads[q].userId
  /\ Cardinality(DOMAIN blobs) >= MaxProcs

(***************************************************************************)
(* C21: user loading fails closed. When the Identity Store holds, under    *)
(* the key of the token, a value that is no well-formed identifier,        *)
(* createFile, getFile, listFiles and setVisibility answer 401             *)
(* 'Unauthorized': none raises an error, none proceeds.                    *)
(***************************************************************************)
\* the value stored for the token is a string ObjectId() does not accept
IllFormedSession(rds, t) ==
  t # NoToken /\ rds["auth_" \o t] \in {StrEmpty, StrBad}

UserLoadFailsClosed ==
  [][\A t \in XTokens :
       (/\ IllFormedSession(redis, t)
        /\ \/ \E b \in Bodies, fs \in FsOutcomes : PostUpload(t, b, fs, "ok")
           \/ \E id \in RouteIds : GetShow(t, id)
           \/ \E p \in QueryParentIds, g \in QueryPages : GetIndex(t, p, g)
           \/ \E id \in RouteIds : PutPublish(t, id) \/ PutUnpublish(t, id)) =>
         last'.status = 401 /\ last'.error = "Unauthorized"]_vars

(***************************************************************************)
(* C22: in readContent the access check precedes the folder check. The     *)
(* answer 400 'A folder doesn't have content' is given only for a folder   *)
(* that is public or owned by the user the token resolves to; a private    *)
(* folder asked for without a token or by another user is answered 404     *)
(* 'Not found', as a record that does not exist.                           *)
(***************************************************************************)
FolderHasNoContent == SendError(400, "A folder doesn't have content")

AccessBeforeFolderCheck ==
  \A t \in XTokens, id \in RouteIds, z \in Sizes :
    LET r == getFileRoute(files, redis, blobs, t, id, z)
        mayRead == files[id.n].isPublic = JsTrue \/ files[id.n].userId = Caller(redis, t)
    IN /\ r = FolderHasNoContent =>
            Exists(files, id) /\ files[id.n].type = "folder" /\ mayRead
       /\ (Exists(files, id) /\ files[id.n].type = "folder") =>
            r = IF mayRead THEN FolderHasNoContent ELSE NotFound

\* a signed-in user has asked for the content of a private folder of another
\* user and got 404, every record of the catalog being such a folder
AccessBeforeFolderCheckWitness ==
  /\ last.op = "getFile" /\ last.status = 404
  /\ Authorized(redis, "t1")
  /\ Len(files) = MaxFiles
  /\ \A i \in 1..Len(files) :
       /\ files[i].type = "folder" /\ files[i].isPublic = JsFalse
       /\ files[i].userId # Caller(redis, "t1")
  /\ getFileRoute(files, redis, blobs, "t1", Hex(1), NoSize) = NotFound

(***************************************************************************)
(* Folders shared between users: two users create folders and files, at    *)
(* the root or under the first record.                                     *)
(***************************************************************************)
SharedBodies == [name : {"a"}, type : {"folder", "file"}, data : {"d"},
                 parentId : {Undefined, Hex(1)}, isPublic : IsPublics]

NextShared ==
  \/ \E k \in RedisKeys, v \in ConcurrentRedisValues : RedisSet(k, v)
  \/ \E k \in RedisKeys : RedisDel(k)
  \/ \E t \in XTokens, b \in SharedBodies : PostUpload(t, b, "ok", "ok")

SpecShared == Init /\ [][NextShared]_vars

(***************************************************************************)
(* C23: the parent check of createFile looks at existence and type, not at *)
(* ownership. An authorized user may create a record under a folder of     *)
(* another user, private or public: the request is answered 201 and the    *)
(* record stored carries the folder's id as parentId and the caller as     *)
(* userId, so a child's userId may differ from its parent's.               *)
(***************************************************************************)
ParentOwnershipNotChecked ==
  \A t \in XTokens, f \in 1..Len(files), b \in SharedBodies :
    (/\ Authorized(redis, t)
     /\ files[f].type = "folder"
     /\ files[f].userId # Caller(redis, t)) =>
       LET r == postUpload(files, redis, blobs, queue, t,
                           [b EXCEPT !.parentId = Hex(f)], "ok", "ok")
           child == r.files[Len(r.files)]
       IN /\ r.resp.status = 201
          /\ Len(r.files) = Len(files) + 1
          /\ child.parentId = f
          /\ child.userId = Caller(redis, t)
          /\ child.userId # r.files[child.parentId].userId

\* the catalog holds a record of one user under a private folder of another
ParentOwnershipNotCheckedWitness ==
  /\ last.op = "postUpload" /\ last.status = 201
  /\ \E i \in 1..Len(files) :
       /\ files[i].parentId \in 1..Len(files)
       /\ files[files[i].parentId].type = "folder"
       /\ files[files[i].parentId].isPublic = JsFalse
       /\ files[files[i].parentId].userId # files[i].userId

(***************************************************************************)
(* Rejected and read-only requests: uploads that are refused or accepted,  *)
(* by a known user, a deleted user or nobody, between reads of the record, *)
(* the listing and the content.                                            *)
(***************************************************************************)
FrameParentIds == {Undefined, Hex(1)}

FrameBodies == [name : {"a"}, type : {"folder", "file", "image"}, data : {"d"},
                parentId : FrameParentIds, isPublic : {Undefined}]

FrameRedisValues == {Hex(UserA), Hex(UserGone)}

NextFrame ==
  \/ \E k \in RedisKeys, v \in FrameRedisValues : RedisSet(k, v)
  \/ \E k \in RedisKeys : RedisDel(k)
  \/ \E t \in XTokens, b \in FrameBodies, fs \in FsOutcomes : PostUpload(t, b, fs, "ok")
  \/ \E t \in XTokens, id \in RouteIds : GetShow(t, id)
  \/ \E t \in XTokens, p \in FrameParentIds, g \in {Undefined} : GetIndex(t, p, g)
  \/ \E t \in XTokens, id \in RouteIds, z \in {NoSize} : GetFile(t, id, z)

SpecFrame == Init /\ [][NextFrame]_vars

(***************************************************************************)
(* C24: rejected and read-only requests leave the stored state unchanged.  *)
(* A createFile answered 401 or 400 inserts no catalog record and writes   *)
(* no blob; getFile, listFiles and readContent, whatever they answer,      *)
(* change neither the catalog, nor the Identity Store, nor the blob store. *)
(***************************************************************************)
RejectedUpload ==
  /\ \E t \in XTokens, b \in FrameBodies, fs \in FsOutcomes : PostUpload(t, b, fs, "ok")
  /\ last'.status \in {400, 401}

ReadOnlyRequest ==
  \/ \E t \in XTokens, id \in RouteIds : GetShow(t, id)
  \/ \E t \in XTokens, p \in FrameParentIds, g \in {Undefined} : GetIndex(t, p, g)
  \/ \E t \in XTokens, id \in RouteIds, z \in {NoSize} : GetFile(t, id, z)

RejectedAndReadOnlyFrame ==
  [][/\ RejectedUpload => (files' = files /\ blobs' = blobs)
     /\ ReadOnlyRequest => (files' = files /\ redis' = redis /\ blobs' = blobs)]_vars

\* an upload under a record that is not a folder was refused, and the catalog
\* and the blob store hold what they held
RejectedAndReadOnlyFrameWitness ==
  /\ last.op = "postUpload" /\ last.status = 400
  /\ last.error = "Parent is not a folder"
  /\ Len(files) = 1 /\ files[1].type = "file"
  /\ Cardinality(DOMAIN blobs) = 1

====
